---- MODULE Spec2Model ----
(***************************************************************************)
(* AttalosModel (attalos/imgtxt_algorithms/approaches/base.py): the base   *)
(* interface of the Attalos image/text models.  The model object, one      *)
(* dataset, one Tensorflow session and one generator returned by           *)
(* iter_batches are modelled.  The session, the saver and the dataset are  *)
(* external: each of their calls either returns or raises, as the          *)
(* environment chooses.                                                    *)
(***************************************************************************)
EXTENDS Integers, Sequences, FiniteSets

VARIABLES
    subclass,     \* TRUE: a subclass that overrides the required hooks
    model_info,   \* self.model_info (never set by AttalosModel.__init__)
    dataset,      \* the Attalos dataset: num_images and its read position
    gen,          \* the generator object returned by iter_batches
    trace,        \* calls the generator body has made, in order
    delivered,    \* the (fetches, feed_dict) pairs handed to the consumer
    last,         \* the last method called directly on the model
    failedAlone   \* methods that raised although no external call raised

vars == <<subclass, model_info, dataset, gen, trace, delivered, last, failedAlone>>

\* ---- bounds of the model ----
MaxImages == 3
MaxBatch == 2
MaxExtra == 1

\* ---- values ----
Fetches == {"train_op", "loss"}
FeedDicts == {{}, {<<"x_ph", "img_a">>}}
ImageFeatures == {"img_a", "img_b"}
Paths == {"model.ckpt"}
Datas == {[start |-> 0, size |-> 1], [start |-> 0, size |-> 2]}
PredictFetches == {"v1", "v2"}

\* what one external call does: return val, or raise val
Outcomes == {[ok |-> TRUE, val |-> "v1"], [ok |-> TRUE, val |-> "v2"],
             [ok |-> FALSE, val |-> "RuntimeError"]}
\* the outcomes of the successive external calls made during one method
Scripts == Outcomes \X Outcomes

Hooks == {"prep_fit", "prep_predict", "get_training_loss"}
Operations == Hooks \cup {"initialize_model", "save", "load", "iter_batches", "fit",
                          "predict_feats", "predict", "post_predict"}

HandleOf(key) == IF key = "input" THEN "x_ph" ELSE "y_pred"
ModelInfos == {[present |-> FALSE, keys |-> {}]} \cup
              {[present |-> TRUE, keys |-> K] : K \in SUBSET {"input", "prediction"}}

NoData == [start |-> 0, size |-> 0]
NoCalls == << >>
\* one external call: what was called, with what, and what it did
Call(fn, a1, a2, out) == [fn |-> fn, a1 |-> a1, a2 |-> a2, out |-> out]

\* the outcome of a method: the external calls it made, whether it raised,
\* and the value returned or the error raised
Returned(calls, v) == [calls |-> calls, raised |-> FALSE, value |-> v, external |-> FALSE]
Raised(calls, e, ext) == [calls |-> calls, raised |-> TRUE, value |-> e, external |-> ext]

\* ---- AttalosModel methods, as functions of their arguments ----

\* variant: a failed sess.run is tried once more
_run_retrying(script, fetches, feed_dict) ==
    LET c1 == << Call("sess.run", fetches, feed_dict, script[1]) >>
        c2 == Append(c1, Call("sess.run", fetches, feed_dict, script[2]))
    IN IF script[1].ok THEN Returned(c1, script[1].val)
       ELSE IF script[2].ok THEN Returned(c2, script[2].val)
       ELSE Raised(c2, script[2].val, TRUE)

\* _run: one sess.run; its value is returned, its exception propagates
_run(script, fetches, feed_dict) ==
    LET o == script[1]
        calls == << Call("sess.run", fetches, feed_dict, o) >>
    IN IF o.ok THEN Returned(calls, o.val) ELSE Raised(calls, o.val, TRUE)

fit(script, fetches, feed_dict) == _run(script, fetches, feed_dict)

predict(script, fetches, feed_dict) == _run(script, fetches, feed_dict)

\* self.model_info[key]: AttributeError without the attribute, KeyError
\* without the key
Lookup(mi, key) ==
    IF ~mi.present THEN [ok |-> FALSE, val |-> "AttributeError"]
    ELSE IF key \notin mi.keys THEN [ok |-> FALSE, val |-> "KeyError"]
    ELSE [ok |-> TRUE, val |-> HandleOf(key)]

\* variant: a missing "input" key is not noticed (model_info.get("input"))
predict_feats_unchecked(mi, script, image_features) ==
    LET p == Lookup(mi, "prediction")
        i == Lookup(mi, "input")
    IN IF ~p.ok THEN Raised(NoCalls, p.val, FALSE)
       ELSE _run(script, p.val, {<<IF i.ok THEN i.val ELSE "None", image_features>>})

\* the arguments are evaluated left to right before _run is entered
predict_feats(mi, script, image_features) ==
    LET p == Lookup(mi, "prediction")
        i == Lookup(mi, "input")
    IN IF ~p.ok THEN Raised(NoCalls, p.val, FALSE)
       ELSE IF ~i.ok THEN Raised(NoCalls, i.val, FALSE)
       ELSE _run(script, p.val, {<<i.val, image_features>>})

\* variant: the base type has a default prep_fit
prep_fit_returning(sub, data) ==
    Returned(NoCalls, [fetches |-> "train_op", feed_dict |-> data])

\* variant: prep_predict is unimplemented only without cross_eval
prep_predict_cross_eval(sub, ds, cross_eval) ==
    IF sub \/ cross_eval THEN Returned(NoCalls, "overridden")
    ELSE Raised(NoCalls, "NotImplementedError", FALSE)

\* variant: only two hooks are unimplemented; the loss has a default
get_training_loss_default(sub, fit_fetches) == Returned(NoCalls, fit_fetches)

\* variant: post_predict without its return statement
post_predict_no_return(predict_fetches, cross_eval) == Returned(NoCalls, "None")

\* the hooks: the base type raises; a subclass returns what it computes
prep_fit(sub, data) ==
    IF sub THEN Returned(NoCalls, [fetches |-> "train_op", feed_dict |-> data])
    ELSE Raised(NoCalls, "NotImplementedError", FALSE)

prep_predict(sub, ds, cross_eval) ==
    IF sub THEN Returned(NoCalls, "overridden")
    ELSE Raised(NoCalls, "NotImplementedError", FALSE)

get_training_loss(sub, fit_fetches) ==
    IF sub THEN Returned(NoCalls, "overridden")
    ELSE Raised(NoCalls, "NotImplementedError", FALSE)

post_predict(predict_fetches, cross_eval) == Returned(NoCalls, predict_fetches)

\* sess.run(tf.initialize_all_variables()): two external calls, no result
initialize_model(script) ==
    LET c1 == << Call("tf.initialize_all_variables", "", {}, script[1]) >>
        c2 == Append(c1, Call("sess.run", "init_op", {}, script[2]))
    IN IF ~script[1].ok THEN Raised(c1, script[1].val, TRUE)
       ELSE IF ~script[2].ok THEN Raised(c2, script[2].val, TRUE)
       ELSE Returned(c2, "None")

save(script, model_output_path) ==
    LET calls == << Call("saver.save", model_output_path, {}, script[1]) >>
    IN IF script[1].ok THEN Returned(calls, "None") ELSE Raised(calls, script[1].val, TRUE)

load(script, model_input_path) ==
    LET calls == << Call("saver.restore", model_input_path, {}, script[1]) >>
    IN IF script[1].ok THEN Returned(calls, "None") ELSE Raised(calls, script[1].val, TRUE)

\* variant: the remainder gets a batch of its own (rounding up)
num_batches_rounding_up(num_images, batch_size) ==
    IF batch_size > 0 THEN (num_images + batch_size - 1) \div batch_size
    ELSE -((num_images + (-batch_size) - 1) \div (-batch_size))

\* Python 2 integer division (floor), then int()
num_batches(num_images, batch_size) ==
    IF batch_size > 0 THEN num_images \div batch_size
    ELSE -((num_images + (-batch_size) - 1) \div (-batch_size))

\* ---- state after construction ----
NoCall == [op |-> "none", args |-> << >>, res |-> Returned(NoCalls, "None")]
NoGen == [pc |-> "none", batch_size |-> 0, num_batches |-> 0, it |-> 0,
          data |-> NoData, error |-> "none", requests |-> 0, extra |-> 0]

Init ==
    /\ subclass \in BOOLEAN
    /\ model_info \in ModelInfos
    /\ (~subclass => ~model_info.present)
    /\ dataset \in {[num_images |-> n, cursor |-> 0] : n \in 0..MaxImages}
    /\ gen = NoGen
    /\ trace = << >>
    /\ delivered = << >>
    /\ last = NoCall
    /\ failedAlone = {}

\* ---- methods called directly on the model ----

\* execution is single-threaded: the caller runs only while the generator
\* is not executing its body
Suspended == gen.pc \in {"none", "created", "suspended", "done", "failed"}

Record(op, args, res) ==
    /\ Suspended
    /\ last' = [op |-> op, args |-> args, res |-> res]
    /\ failedAlone' = IF res.raised /\ ~res.external THEN failedAlone \cup {op}
                      ELSE failedAlone
    /\ UNCHANGED <<subclass, model_info, dataset, gen, trace, delivered>>

InitializeModel == \E sc \in Scripts : Record("initialize_model", << >>, initialize_model(sc))

Save == \E sc \in Scripts, p \in Paths : Record("save", <<p>>, save(sc, p))

Load == \E sc \in Scripts, p \in Paths : Record("load", <<p>>, load(sc, p))

Fit == \E sc \in Scripts, f \in Fetches, d \in FeedDicts :
           Record("fit", <<f, d>>, fit(sc, f, d))

Predict == \E sc \in Scripts, f \in Fetches, d \in FeedDicts :
               Record("predict", <<f, d>>, predict(sc, f, d))

PredictFeats == \E sc \in Scripts, x \in ImageFeatures :
                    Record("predict_feats", <<x>>, predict_feats(model_info, sc, x))

PrepFit == \E data \in Datas : Record("prep_fit", <<data>>, prep_fit(subclass, data))

PrepPredict == \E ce \in BOOLEAN :
                   Record("prep_predict", <<ce>>, prep_predict(subclass, dataset, ce))

PostPredict == \E pf \in PredictFetches, ce \in BOOLEAN :
                   Record("post_predict", <<pf, ce>>, post_predict(pf, ce))

GetTrainingLoss == \E ff \in PredictFetches :
                       Record("get_training_loss", <<ff>>, get_training_loss(subclass, ff))

NextCalls ==
    \/ InitializeModel
    \/ Save
    \/ Load
    \/ Fit
    \/ Predict
    \/ PredictFeats
    \/ PrepFit
    \/ PrepPredict
    \/ PostPredict
    \/ GetTrainingLoss

SpecCalls == Init /\ [][NextCalls]_vars

\* ---- iter_batches: the generator and its consumer ----

BatchSizes == -1..MaxBatch

\* dataset.get_next_batch(batch_size), when it returns: the next batch_size
\* items, and the dataset moved past them
get_next_batch(ds, batch_size) ==
    [data |-> [start |-> ds.cursor, size |-> batch_size],
     dataset |-> [ds EXCEPT !.cursor = ds.cursor + batch_size]]

\* the body up to and including line 75, run by the first request
EnterBody(g, ds) ==
    IF g.batch_size = 0
    THEN [g EXCEPT !.pc = "failed", !.error = "ZeroDivisionError"]
    ELSE [g EXCEPT !.pc = "line76", !.num_batches = num_batches(ds.num_images, g.batch_size)]

\* variant: a finished generator starts over when asked again
ResumeRestarting(g, ds) ==
    IF g.pc = "suspended" THEN [g EXCEPT !.pc = "line76", !.requests = g.requests + 1]
    ELSE EnterBody([g EXCEPT !.requests = g.requests + 1, !.it = 0,
                             !.extra = IF g.pc = "created" THEN 0 ELSE g.extra + 1], ds)

\* what a request (next) does to a generator that is not executing
Resume(g, ds) ==
    IF g.pc = "created" THEN EnterBody([g EXCEPT !.requests = g.requests + 1], ds)
    ELSE IF g.pc = "suspended" THEN [g EXCEPT !.pc = "line76", !.requests = g.requests + 1]
    ELSE [g EXCEPT !.extra = g.extra + 1]

\* variant: the first batch is taken from the dataset when iter_batches is called
IterBatchesEager ==
    \E batch_size \in BatchSizes :
        /\ gen.pc = "none"
        /\ gen' = [NoGen EXCEPT !.pc = "created", !.batch_size = batch_size]
        /\ dataset' = get_next_batch(dataset, batch_size).dataset
        /\ trace' = Append(trace, [fn |-> "get_next_batch", size |-> batch_size,
                                   data |-> get_next_batch(dataset, batch_size).data,
                                   ok |-> TRUE])
        /\ UNCHANGED <<subclass, model_info, delivered, last, failedAlone>>

\* calling iter_batches only creates the generator: no line of the body runs
IterBatches ==
    \E batch_size \in BatchSizes :
        /\ gen.pc = "none"
        /\ gen' = [NoGen EXCEPT !.pc = "created", !.batch_size = batch_size]
        /\ UNCHANGED <<subclass, model_info, dataset, trace, delivered, last, failedAlone>>

\* the consumer asks for the next pair
Request ==
    /\ gen.pc \in {"created", "suspended", "done", "failed"}
    /\ gen.pc \in {"done", "failed"} => gen.extra < MaxExtra
    /\ gen' = Resume(gen, dataset)
    /\ failedAlone' = IF gen'.pc = "failed" /\ gen.pc # "failed"
                      THEN failedAlone \cup {"iter_batches"} ELSE failedAlone
    /\ UNCHANGED <<subclass, model_info, dataset, trace, delivered, last>>

\* variant: one iteration too many (xrange(num_batches + 1))
LoopOffByOne ==
    /\ gen.pc = "line76"
    /\ gen' = IF gen.it <= gen.num_batches
              THEN [gen EXCEPT !.pc = "line77", !.it = gen.it + 1]
              ELSE [gen EXCEPT !.pc = "done"]
    /\ UNCHANGED <<subclass, model_info, dataset, trace, delivered, last, failedAlone>>

\* line 76: for cur_batch_num in xrange(num_batches)
Loop ==
    /\ gen.pc = "line76"
    /\ gen' = IF gen.it < gen.num_batches
              THEN [gen EXCEPT !.pc = "line77", !.it = gen.it + 1]
              ELSE [gen EXCEPT !.pc = "done"]
    /\ UNCHANGED <<subclass, model_info, dataset, trace, delivered, last, failedAlone>>

\* line 77: data = dataset.get_next_batch(batch_size)
GetNextBatch ==
    /\ gen.pc = "line77"
    /\ \/ LET r == get_next_batch(dataset, gen.batch_size) IN
            /\ dataset' = r.dataset
            /\ gen' = [gen EXCEPT !.pc = "line78", !.data = r.data]
            /\ trace' = Append(trace, [fn |-> "get_next_batch", size |-> gen.batch_size,
                                       data |-> r.data, ok |-> TRUE])
       \/ /\ gen' = [gen EXCEPT !.pc = "failed", !.error = "DatasetError"]
          /\ trace' = Append(trace, [fn |-> "get_next_batch", size |-> gen.batch_size,
                                     data |-> NoData, ok |-> FALSE])
          /\ UNCHANGED dataset
    /\ UNCHANGED <<subclass, model_info, delivered, last, failedAlone>>

\* lines 78-79: fetches, feed_dict = self.prep_fit(data); yield fetches, feed_dict
PrepFitAndYield ==
    /\ gen.pc = "line78"
    /\ LET r == prep_fit(subclass, gen.data) IN
        /\ trace' = Append(trace, [fn |-> "prep_fit", size |-> gen.data.size,
                                   data |-> gen.data, ok |-> ~r.raised])
        /\ IF r.raised
           THEN /\ gen' = [gen EXCEPT !.pc = "failed", !.error = r.value]
                /\ failedAlone' = failedAlone \cup {"iter_batches"}
                /\ UNCHANGED delivered
           ELSE /\ gen' = [gen EXCEPT !.pc = "suspended"]
                /\ delivered' = Append(delivered, r.value)
                /\ UNCHANGED failedAlone
    /\ UNCHANGED <<subclass, model_info, dataset, last>>

NextIter ==
    \/ IterBatches
    \/ Request
    \/ Loop
    \/ GetNextBatch
    \/ PrepFitAndYield

SpecIter == Init /\ [][NextIter]_vars

Next == NextCalls \/ NextIter

Spec == Init /\ [][Next]_vars

\* the base type itself: no hook overridden, model_info never set
InitBase == Init /\ ~subclass

SpecBase == InitBase /\ [][Next]_vars

\* ---- properties ----

Floor == dataset.num_images \div gen.batch_size
GetCalls == SelectSeq(trace, LAMBDA e : e.fn = "get_next_batch")
PrepCalls == SelectSeq(trace, LAMBDA e : e.fn = "prep_fit")
Finished == gen.pc \in {"done", "failed"}

\* C1: with batch_size >= 1 and a prep_fit that succeeds, the generator never
\* delivers more than floor(num_images / batch_size) pairs, and when it is
\* exhausted it has delivered exactly that many.
C1_BatchCount ==
    (subclass /\ gen.batch_size >= 1) =>
        /\ Len(delivered) <= Floor
        /\ gen.pc = "done" => Len(delivered) = Floor

C1_Witness ==
    /\ subclass
    /\ gen.pc = "done"
    /\ dataset.num_images = 3
    /\ gen.batch_size = 2
    /\ Len(delivered) = 1

\* C2: on the base type each of prep_fit, prep_predict and get_training_loss
\* raises NotImplementedError for every argument, returns nothing and makes no
\* external call.
C2_HooksRaise ==
    (~subclass /\ last.op \in Hooks) =>
        /\ last.res.raised
        /\ last.res.value = "NotImplementedError"
        /\ last.res.calls = NoCalls
        /\ ~last.res.external
        /\ dataset.cursor = 0

C2_Witness ==
    /\ ~subclass
    /\ last.op = "prep_predict"
    /\ last.args = <<TRUE>>
    /\ last.res.raised
    /\ {"prep_fit", "get_training_loss"} \subseteq failedAlone

\* C3: post_predict returns its predict_fetches argument unchanged, for both
\* values of cross_eval, without raising and without any external call.
C3_PostPredictIdentity ==
    last.op = "post_predict" =>
        /\ ~last.res.raised
        /\ last.res.value = last.args[1]
        /\ last.res.calls = NoCalls
        /\ dataset.cursor = 0

C3_Witness ==
    /\ last.op = "post_predict"
    /\ last.args = <<"v2", TRUE>>
    /\ last.res.value = "v2"

\* C4 as stated: some two operations are the only ones that ever fail without
\* an external failure, and those two raise NotImplementedError.
C4_Original ==
    \E S \in SUBSET Operations :
        /\ Cardinality(S) = 2
        /\ failedAlone \subseteq S
        /\ last.op \in S => (last.res.raised /\ last.res.value = "NotImplementedError")

\* C4 amended: on the base type exactly the three hooks always raise
\* NotImplementedError; predict_feats always raises AttributeError before any
\* external call; iter_batches fails when batch_size is 0, when its prep_fit
\* call raises, or when the dataset raises; every other operation raises only
\* when an external call it made raised.
C4_ThreeHooksRaise ==
    /\ Cardinality(Hooks) = 3
    /\ last.op \in Hooks =>
           (last.res.raised /\ last.res.value = "NotImplementedError" /\ last.op \in failedAlone)
    /\ last.op = "predict_feats" =>
           (last.res.raised /\ last.res.value = "AttributeError" /\ last.res.calls = NoCalls)
    /\ (last.op \notin Hooks \cup {"predict_feats"} /\ last.res.raised) =>
           /\ last.res.external
           /\ ~last.res.calls[Len(last.res.calls)].out.ok
           /\ last.res.value = last.res.calls[Len(last.res.calls)].out.val
    /\ gen.pc = "failed" =>
           \/ gen.error = "ZeroDivisionError" /\ gen.batch_size = 0
           \/ gen.error = "NotImplementedError" /\ ~trace[Len(trace)].ok
                                                /\ trace[Len(trace)].fn = "prep_fit"
           \/ gen.error = "DatasetError" /\ ~trace[Len(trace)].ok
                                         /\ trace[Len(trace)].fn = "get_next_batch"
    /\ failedAlone \subseteq Hooks \cup {"predict_feats", "iter_batches"}

C4_Witness ==
    /\ ~subclass
    /\ failedAlone = Hooks \cup {"predict_feats", "iter_batches"}
    /\ gen.pc = "failed"
    /\ gen.error = "NotImplementedError"
    /\ last.op = "fit"
    /\ last.res.raised

\* C5: with batch_size >= 1 every batch asked of the dataset and every pair
\* delivered has exactly batch_size items, at most floor(N/B) batches are asked
\* for, so the items asked for never exceed N; an exhausted generator has asked
\* for exactly floor(N/B) batches and left the last N mod B items alone.
C5_TruncatesRemainder ==
    gen.batch_size >= 1 =>
        /\ \A i \in 1..Len(GetCalls) : GetCalls[i].size = gen.batch_size
        /\ \A i \in 1..Len(delivered) : delivered[i].feed_dict.size = gen.batch_size
        /\ Len(GetCalls) <= Floor
        /\ Len(GetCalls) * gen.batch_size <= dataset.num_images
        /\ dataset.cursor <= dataset.num_images - (dataset.num_images % gen.batch_size)
        /\ gen.pc = "done" =>
               /\ Len(GetCalls) = Floor
               /\ dataset.cursor = Floor * gen.batch_size

C5_Witness ==
    /\ gen.pc = "done"
    /\ gen.batch_size = 2
    /\ dataset.num_images = 3
    /\ dataset.cursor = 2
    /\ Len(GetCalls) = 1
    /\ Len(delivered) = 1

\* C6: calling iter_batches asks nothing of the dataset or of prep_fit; the
\* calls alternate get_next_batch, prep_fit; when the k-th pair has been
\* delivered, k calls of each have been made, on the k-th request, and the
\* j-th pair is prep_fit of the data the j-th get_next_batch returned.
C6_LazyOrdered ==
    /\ gen.pc \in {"none", "created"} =>
           (trace = << >> /\ delivered = << >> /\ dataset.cursor = 0)
    /\ \A i \in 1..Len(trace) :
           trace[i].fn = IF i % 2 = 1 THEN "get_next_batch" ELSE "prep_fit"
    /\ gen.pc = "suspended" =>
           /\ Len(delivered) >= 1
           /\ Len(trace) = 2 * Len(delivered)
           /\ Len(GetCalls) = Len(delivered)
           /\ Len(PrepCalls) = Len(delivered)
           /\ gen.requests = Len(delivered)
    /\ \A j \in 1..Len(delivered) :
           /\ trace[2 * j - 1].ok /\ trace[2 * j].ok
           /\ trace[2 * j].data = trace[2 * j - 1].data
           /\ delivered[j] = [fetches |-> "train_op", feed_dict |-> trace[2 * j - 1].data]
           /\ trace[2 * j - 1].data.start = (j - 1) * gen.batch_size

C6_Witness ==
    /\ gen.pc = "suspended"
    /\ Len(delivered) = 2
    /\ Len(trace) = 4
    /\ dataset.num_images = 3

\* C7: once the generator is exhausted or has failed, a further request
\* delivers nothing, calls neither the dataset nor prep_fit, and leaves the
\* generator finished.
C7_NonRestartable ==
    [][Finished => /\ delivered' = delivered
                   /\ trace' = trace
                   /\ dataset' = dataset
                   /\ gen'.pc = gen.pc
                   /\ gen'.error = gen.error]_vars

C7_Witness ==
    /\ gen.pc = "done"
    /\ gen.extra >= 1
    /\ Len(delivered) = 1
    /\ dataset.cursor < dataset.num_images

\* C8: fit and predict each make exactly one sess.run with the fetches and
\* feed_dict given; what it returns is returned, and what it raises is raised
\* to the caller with no further call.
C8_SingleDelegation ==
    last.op \in {"fit", "predict"} =>
        /\ Len(last.res.calls) = 1
        /\ last.res.calls[1].fn = "sess.run"
        /\ last.res.calls[1].a1 = last.args[1]
        /\ last.res.calls[1].a2 = last.args[2]
        /\ last.res.raised = ~last.res.calls[1].out.ok
        /\ last.res.value = last.res.calls[1].out.val
        /\ last.res.raised => last.res.external

C8_Witness ==
    /\ last.op = "predict"
    /\ last.res.raised
    /\ last.res.value = "RuntimeError"
    /\ Len(last.res.calls) = 1

\* C9: with both keys in model_info, predict_feats makes exactly one sess.run
\* fetching model_info["prediction"] and feeding model_info["input"] with
\* image_features; without model_info (the base type) or without either key it
\* raises before any sess.run.
C9_PredictFeatsKeys ==
    /\ ~subclass => ~model_info.present
    /\ last.op = "predict_feats" =>
           IF model_info.present /\ {"input", "prediction"} \subseteq model_info.keys
           THEN /\ Len(last.res.calls) = 1
                /\ last.res.calls[1].fn = "sess.run"
                /\ last.res.calls[1].a1 = HandleOf("prediction")
                /\ last.res.calls[1].a2 = {<<HandleOf("input"), last.args[1]>>}
                /\ last.res.raised = ~last.res.calls[1].out.ok
                /\ last.res.value = last.res.calls[1].out.val
           ELSE /\ last.res.raised
                /\ last.res.calls = NoCalls
                /\ ~last.res.external
                /\ last.res.value = IF model_info.present THEN "KeyError"
                                    ELSE "AttributeError"

C9_Witness ==
    /\ last.op = "predict_feats"
    /\ model_info.present
    /\ model_info.keys = {"prediction"}
    /\ last.res.raised
    /\ last.res.calls = NoCalls

\* C10: on the base type with batch_size >= 1, no pair is ever delivered; if
\* floor(N/B) >= 1 the first request fails, and when the dataset did not raise
\* it fails with NotImplementedError after exactly one batch was taken from
\* the dataset; if floor(N/B) = 0 the generator is exhausted without failure
\* and without a prep_fit call.
C10_PrepFitFailure ==
    (~subclass /\ gen.batch_size >= 1) =>
        /\ delivered = << >>
        /\ gen.requests <= 1
        /\ gen.pc # "suspended"
        /\ (Floor >= 1 /\ Finished) =>
               /\ gen.pc = "failed"
               /\ gen.requests = 1
               /\ gen.error \in {"NotImplementedError", "DatasetError"}
               /\ gen.error = "NotImplementedError" =>
                      /\ Len(GetCalls) = 1
                      /\ GetCalls[1].ok
                      /\ Len(PrepCalls) = 1
                      /\ dataset.cursor = gen.batch_size
        /\ (Floor = 0 /\ Finished) =>
               /\ gen.pc = "done"
               /\ gen.error = "none"
               /\ trace = << >>
               /\ dataset.cursor = 0

C10_Witness ==
    /\ ~subclass
    /\ gen.pc = "failed"
    /\ gen.error = "NotImplementedError"
    /\ gen.batch_size = 2
    /\ dataset.num_images = 3
    /\ dataset.cursor = 2
    /\ gen.extra = 1
====
